---- MODULE Spec2Model ----
(***************************************************************************)
(* A model of the FastSLAM filter of python_slam.py: the particle set, the *)
(* motion step, the per-landmark EKF correction with data association, the *)
(* particle weights and the resampling wheel.                              *)
(*                                                                         *)
(* Numbers.  The program computes in floating point; the model computes in *)
(* exact integer and rational arithmetic on a grid:                        *)
(*   - angles are counted in quarter turns, so pi is Pi = 2 units and the  *)
(*     sines and cosines of every heading are exact (-1, 0, 1);            *)
(*   - lengths are counted in grid units; a stored pose, landmark mean or  *)
(*     landmark covariance is an integer (vector, matrix) and a value      *)
(*     computed for storage is truncated toward zero;                      *)
(*   - a Jacobian is a matrix of eighths; an innovation covariance and a    *)
(*     Kalman gain are matrices of fractions with one common denominator,   *)
(*     computed exactly from it;                                            *)
(*   - sqrt is the integer square root, atan2 the nearest quarter turn,    *)
(*     exp(-m/2) a table in 64ths;                                         *)
(*   - a division of Python floats by zero and the inverse of a singular   *)
(*     matrix raise; 0/0 on numpy floats is nan, carried here as NaN;      *)
(*     infinities are not modelled.                                        *)
(* Python lists are 0-based, the sequences here 1-based: landmark k of the *)
(* program is element k+1 of the model.                                    *)
(***************************************************************************)
EXTENDS Integers, Sequences, FiniteSets, TLC

VARIABLES
  pc,         \* "new" | "idle" | "weighted" | "raised": where the filter's caller is
  particles,  \* FastSLAM.particles: a list of references to Particle objects
  pobj,       \* the Particle objects: reference -> [pose, lp, lc]
  lists,      \* the list objects: reference -> the list's elements
  qt,         \* <<measurement_distance_stddev^2, measurement_angle_stddev^2>>
  weights,    \* the weights update_and_compute_weights returned
  cylinders,  \* the argument of the last update_and_compute_weights
  log,        \* per particle, per observation: what update_particle did
  src,        \* the index resample copied each slot from
  exc,        \* the exception that ended the run, or "none"
  n0,         \* the number of particles the filter was constructed with
  calls,      \* predict / correct calls made so far
  rs,         \* one run of resample, statement by statement
  gq          \* one application of Particle.g

vars == <<pc, particles, pobj, lists, qt, weights, cylinders, log, src, exc,
          n0, calls, rs, gq>>

mainVars == <<pc, particles, pobj, lists, qt, weights, cylinders, log, src,
              exc, n0, calls>>

-----------------------------------------------------------------------------
(* Bounds of the model.                                                    *)

MaxParticles == 2
MaxCalls == 3
MaxCylinders == 2
MaxWeight == 3
MaxCoord == 1
MaxTurn == 5
MaxWheel == 2
MaxMoves == 2

-----------------------------------------------------------------------------
(* Arithmetic.                                                             *)

\* math.pi, in quarter turns.
Pi == 2

Abs(a) == IF a < 0 THEN -a ELSE a

\* A float quotient kept on the grid: a / b truncated toward zero (b # 0).
Quot(a, b) ==
  IF (a >= 0) = (b > 0) THEN Abs(a) \div Abs(b) ELSE -(Abs(a) \div Abs(b))

\* The largest k in lo..hi with k * k <= n, by bisection (lo * lo <= n).
RECURSIVE SqrtIn(_, _, _)
SqrtIn(n, lo, hi) ==
  IF lo >= hi THEN lo
  ELSE LET mid == (lo + hi + 1) \div 2
       IN  IF mid * mid <= n THEN SqrtIn(n, mid, hi) ELSE SqrtIn(n, lo, mid - 1)

\* math.sqrt on the grid (n >= 0): the integer square root.
ISqrt(n) == SqrtIn(n, 0, IF n < 46340 THEN n ELSE 46340)

RECURSIVE Gcd(_, _)
Gcd(a, b) == IF b = 0 THEN a ELSE Gcd(b, a % b)

\* math.cos and math.sin of a whole number of quarter turns.
Cos(t) == CASE t % 4 = 0 -> 1 [] t % 4 = 1 -> 0 [] t % 4 = 2 -> -1 [] OTHER -> 0

Sin(t) == CASE t % 4 = 0 -> 0 [] t % 4 = 1 -> 1 [] t % 4 = 2 -> 0 [] OTHER -> -1

\* math.atan2, to the nearest quarter turn, in (-Pi, Pi]; atan2(0, 0) = 0.
Atan2(dy, dx) ==
  IF Abs(dx) >= Abs(dy)
  THEN (IF dx >= 0 THEN 0 ELSE (IF dy >= 0 THEN Pi ELSE -Pi))
  ELSE (IF dy > 0 THEN 1 ELSE -1)

-----------------------------------------------------------------------------
(* Particle.g and Particle.move.                                           *)

\* The wrap of g3 (line 38) without the "- pi": a heading in [0, 2 pi).
gNoShift(state, control, w) ==
  LET x == state[1]
      y == state[2]
      theta == state[3]
      l == control[1]
      r == control[2]
  IN  IF r # l
      THEN LET alpha == Quot(r - l, w)
           IN  << x + Quot((2 * l + w * alpha) * (Sin(theta + alpha) - Sin(theta)),
                           2 * alpha),
                  y + Quot((2 * l + w * alpha) * (-Cos(theta + alpha) + Cos(theta)),
                           2 * alpha),
                  (theta + alpha + Pi) % (2 * Pi) >>
      ELSE << x + l * Cos(theta), y + l * Sin(theta), theta >>

\* Particle.g.  rad + w/2 = l/alpha + w/2 is kept as the one fraction
\* (2 l + w alpha) / (2 alpha), so the product is truncated once.
g(state, control, w) ==
  LET x == state[1]
      y == state[2]
      theta == state[3]
      l == control[1]
      r == control[2]
  IN  IF r # l
      THEN LET alpha == Quot(r - l, w)
           IN  << x + Quot((2 * l + w * alpha) * (Sin(theta + alpha) - Sin(theta)),
                           2 * alpha),
                  y + Quot((2 * l + w * alpha) * (-Cos(theta + alpha) + Cos(theta)),
                           2 * alpha),
                  ((theta + alpha + Pi) % (2 * Pi)) - Pi >>
      ELSE << x + l * Cos(theta), y + l * Sin(theta), theta >>

-----------------------------------------------------------------------------
(* 2x2 matrices (numpy arrays), and matrices of fractions with a common     *)
(* denominator: [n |-> integer matrix, d |-> denominator > 0].              *)

M2(a, b, c, d) == << <<a, b>>, <<c, d>> >>

MatI == M2(1, 0, 0, 1)

MatMul(A, B) ==
  M2(A[1][1] * B[1][1] + A[1][2] * B[2][1], A[1][1] * B[1][2] + A[1][2] * B[2][2],
     A[2][1] * B[1][1] + A[2][2] * B[2][1], A[2][1] * B[1][2] + A[2][2] * B[2][2])

MatT(A) == M2(A[1][1], A[2][1], A[1][2], A[2][2])

MatAdd(A, B) ==
  M2(A[1][1] + B[1][1], A[1][2] + B[1][2], A[2][1] + B[2][1], A[2][2] + B[2][2])

MatScale(k, A) == M2(k * A[1][1], k * A[1][2], k * A[2][1], k * A[2][2])

MatDet(A) == A[1][1] * A[2][2] - A[1][2] * A[2][1]

MatAdj(A) == M2(A[2][2], -A[1][2], -A[2][1], A[1][1])

\* A fraction matrix in lowest terms, its denominator positive (d # 0).
Reduce(n, d) ==
  LET k == Gcd(Gcd(Gcd(Abs(n[1][1]), Abs(n[1][2])), Gcd(Abs(n[2][1]), Abs(n[2][2]))),
               Abs(d))
      s == IF d < 0 THEN -1 ELSE 1
  IN  [n |-> M2((s * n[1][1]) \div k, (s * n[1][2]) \div k,
                (s * n[2][1]) \div k, (s * n[2][2]) \div k),
       d |-> (s * d) \div k]

FInt(A) == [n |-> A, d |-> 1]

FMul(X, Y) == Reduce(MatMul(X.n, Y.n), X.d * Y.d)

FAdd(X, Y) == Reduce(MatAdd(MatScale(Y.d, X.n), MatScale(X.d, Y.n)), X.d * Y.d)

FSub(X, Y) == FAdd(X, [n |-> MatScale(-1, Y.n), d |-> Y.d])

FT(X) == [n |-> MatT(X.n), d |-> X.d]

\* np.linalg.inv of a matrix that is not singular (MatDet(X.n) # 0).
FInv(X) == Reduce(MatScale(X.d, MatAdj(X.n)), MatDet(X.n))

\* The value stored on the grid: every element truncated toward zero.
FTrunc(X) ==
  M2(Quot(X.n[1][1], X.d), Quot(X.n[1][2], X.d),
     Quot(X.n[2][1], X.d), Quot(X.n[2][2], X.d))

-----------------------------------------------------------------------------
(* The measurement model.  Where a method names an intermediate result and  *)
(* reads it several times, the model passes it on to an operator of its own *)
(* (H_QlOf, Density, ...), which is the rest of the method.                 *)

\* Particle.h: the expected (range, bearing) of a landmark.
h(state, landmark, scanner_displacement) ==
  LET dx == landmark[1] - (state[1] + scanner_displacement * Cos(state[3]))
      dy == landmark[2] - (state[2] + scanner_displacement * Sin(state[3]))
  IN  << ISqrt(dx * dx + dy * dy),
         ((Atan2(dy, dx) - state[3] + Pi) % (2 * Pi)) - Pi >>

\* The fixed-point units of a Jacobian element (1/JUnit) and of sqrt(q)
\* (1/RootUnit).
JUnit == 8

RootUnit == 64

\* float('nan'): the value of 0.0 / 0.0 on numpy floats, and of every
\* arithmetic operation on it.  No number of the model is this small.
NaN == -9999

NaNVec == << NaN, NaN >>

NaNMat == << << NaN, NaN >>, << NaN, NaN >> >>

\* a >= b and a <= b on floats.
Ge(a, b) == a # NaN /\ b # NaN /\ a >= b

Le(a, b) == a # NaN /\ b # NaN /\ a <= b

\* a > b and a < b on floats: False when either side is nan.
Gt(a, b) == a # NaN /\ b # NaN /\ a > b

Lt(a, b) == a # NaN /\ b # NaN /\ a < b

\* Lines 70-76: [[dx/sqrtq, dy/sqrtq], [-dy/q, dx/q]], each element truncated
\* to a multiple of 1/JUnit.  The pose is an array (lines 43, 316), so dx and
\* dy are numpy floats and with q = 0 the four quotients are 0/0 = nan,
\* which raises nothing.
Jacobian(dx, dy, q, sqrtq) ==
  IF q = 0
  THEN [nan |-> TRUE]
  ELSE [nan |-> FALSE,
        H |-> [n |-> M2(Quot(JUnit * RootUnit * dx, sqrtq),
                        Quot(JUnit * RootUnit * dy, sqrtq),
                        Quot(-JUnit * dy, q),
                        Quot(JUnit * dx, q)),
               d |-> JUnit]]

\* Lines 68-69 for the offset (dx, dy) of the landmark from the scanner.
JacobianAt(dx, dy) ==
  Jacobian(dx, dy, dx * dx + dy * dy, ISqrt((dx * dx + dy * dy) * RootUnit * RootUnit))

\* Particle.dh_dlandmark.  A landmark at nan makes dx, dy and q nan.
dh_dlandmark(state, landmark, scanner_displacement) ==
  IF landmark = NaNVec
  THEN [nan |-> TRUE]
  ELSE JacobianAt(landmark[1] - (state[1] + scanner_displacement * Cos(state[3])),
                  landmark[2] - (state[2] + scanner_displacement * Sin(state[3])))

\* np.diag([measurement_distance_stddev**2, measurement_angle_stddev**2]).
QtMatrix(v) == M2(v[1], 0, 0, v[2])

\* Line 93: Ql = H Sigma H' + Qt, for the Jacobian J that line 90 computed.
\* A nan in H or in Sigma makes every element of Ql nan.
H_QlOf(J, covariance, Qt) ==
  IF J.nan \/ covariance = NaNMat
  THEN [nan |-> TRUE]
  ELSE [nan |-> FALSE, H |-> J.H,
        Ql |-> FAdd(FMul(J.H, FMul(FInt(covariance), FT(J.H))), FInt(Qt))]

\* Particle.H_Ql_jacobian_and_measurement_covariance_for_landmark.
H_Ql(pose, position, covariance, Qt, scanner_displacement) ==
  H_QlOf(dh_dlandmark(pose, position, scanner_displacement), covariance, Qt)

\* The fixed-point units of a likelihood (1.0) and of the exp table (1.0).
LikOne == 64

ExpOne == 64

ExpCut == 20

\* math.exp(-k / 4) in units of 1/ExpOne: exp(-1/4) = 0.7788 is taken as 25/32.
\* Past ExpCut quarter steps the table has reached 0 (k >= 0).
RECURSIVE ExpNegQuarter(_)
ExpNegQuarter(k) ==
  IF k = 0 THEN ExpOne
  ELSE IF k >= ExpCut THEN 0
  ELSE (25 * ExpNegQuarter(k - 1)) \div 32

\* Line 116 for a determinant detn / d^2 > 0 of Ql = n/d and the exponent
\* -k/4: 1.0 / (2 pi sqrt(det Ql)) * exp(.), in units of 1/LikOne.  A positive
\* exponent arises only from a Ql that is not positive definite; math.exp
\* then grows until it raises.
DensityValue(d, sqn, k) ==
  IF sqn = 0 THEN [exc |-> "ZeroDivisionError"]
  ELSE IF k < 0 THEN [exc |-> "OverflowError"]
  ELSE [exc |-> "none",
        w |-> Quot(LikOne * d * ExpNegQuarter(k), 2 * Pi * sqn * ExpOne)]

\* dz' adj(n) dz: the numerator of dz' Ql^-1 dz.
Quadratic(dz, A) ==
  dz[1] * (A[1][1] * dz[1] + A[1][2] * dz[2]) + dz[2] * (A[2][1] * dz[1] + A[2][2] * dz[2])

\* Line 116 for the determinant detn of Ql.n: math.sqrt raises on a negative
\* determinant and the division on a zero one, both before np.linalg.inv is
\* reached.  The exponent -1/2 dz' Ql^-1 dz is counted in quarter steps.
DensityOf(delta_z, Ql, detn) ==
  IF detn < 0 THEN [exc |-> "ValueError"]
  ELSE IF detn = 0 THEN [exc |-> "ZeroDivisionError"]
  ELSE DensityValue(Ql.d, ISqrt(detn),
                    Quot(2 * Quadratic(delta_z, MatAdj(Ql.n)) * Ql.d, detn))

\* Line 116 for the delta_z and the (H, Ql) of lines 106-108.  With a Ql of
\* nan the determinant, its root, the inverse and the exponential are nan and
\* nothing is raised.
Density(delta_z, HQ) ==
  IF HQ.nan
  THEN [exc |-> "none", w |-> NaN]
  ELSE DensityOf(delta_z, HQ.Ql, MatDet(HQ.Ql.n))

\* measurement - expected measurement (line 106); the bearing is not wrapped.
Residual(measurement, expected) ==
  << measurement[1] - expected[1], measurement[2] - expected[2] >>

\* Particle.wl_likelihood_of_correspondence.
wl_likelihood_of_correspondence(measurement, pose, position, covariance, Qt, scanner_displacement) ==
  Density(Residual(measurement, h(pose, position, scanner_displacement)),
          H_Ql(pose, position, covariance, Qt, scanner_displacement))

\* LegoLogfile.scanner_to_world: a point of the scanner's frame in the world.
scanner_to_world(pose, point) ==
  << point[1] * Cos(pose[3]) - point[2] * Sin(pose[3]) + pose[1],
     point[1] * Sin(pose[3]) + point[2] * Cos(pose[3]) + pose[2] >>

\* Line 153: H_inv Qt H_inv', stored on the grid.
InitialCovariance(H_inv, Qt) == FTrunc(FMul(FMul(H_inv, FInt(Qt)), FT(H_inv)))

\* Lines 150-153 for the Jacobian J of line 149: np.linalg.inv raises on a
\* singular H and returns nan for an H of nan.
NewLandmarkOf(landmark_position, J, Qt) ==
  IF J.nan
  THEN [exc |-> "none", position |-> landmark_position, covariance |-> NaNMat]
  ELSE IF MatDet(J.H.n) = 0 THEN [exc |-> "LinAlgError"]
  ELSE [exc |-> "none",
        position |-> landmark_position,
        covariance |-> InitialCovariance(FInv(J.H), Qt)]

\* Lines 146-153 for the landmark position of line 146.
NewLandmarkAt(pose, landmark_position, Qt, scanner_displacement) ==
  NewLandmarkOf(landmark_position,
                dh_dlandmark(pose, landmark_position, scanner_displacement), Qt)

\* Particle.initialize_new_landmark up to the two appends: the new landmark's
\* position and covariance, or the exception raised before anything is appended.
NewLandmark(pose, measurement_in_scanner_system, Qt, scanner_displacement) ==
  NewLandmarkAt(pose,
                scanner_to_world(<< pose[1] + Cos(pose[3]) * scanner_displacement,
                                    pose[2] + Sin(pose[3]) * scanner_displacement,
                                    pose[3] >>,
                                 measurement_in_scanner_system),
                Qt, scanner_displacement)

\* Line 168: K = Sigma H' Ql^-1.
KalmanGain(covariance, H, Ql) == FMul(FMul(FInt(covariance), FT(H)), FInv(Ql))

\* K dz, stored on the grid.
GainStep(K, dz) ==
  << Quot(K.n[1][1] * dz[1] + K.n[1][2] * dz[2], K.d),
     Quot(K.n[2][1] * dz[1] + K.n[2][2] * dz[2], K.d) >>

\* Lines 170-174 for the gain K of line 168.
UpdatedBy(position, covariance, dz, H, K) ==
  [exc |-> "none",
   position |-> << position[1] + GainStep(K, dz)[1], position[2] + GainStep(K, dz)[2] >>,
   covariance |-> FTrunc(FMul(FSub(FInt(MatI), FMul(K, H)), FInt(covariance)))]

\* Lines 168-174 for the (H, Ql) of line 165: np.linalg.inv raises on a
\* singular Ql; with a Ql of nan the gain, and with it the new position and
\* covariance, are nan.
UpdatedOf(position, covariance, dz, HQ) ==
  IF HQ.nan
  THEN [exc |-> "none", position |-> NaNVec, covariance |-> NaNMat]
  ELSE IF MatDet(HQ.Ql.n) = 0 THEN [exc |-> "LinAlgError"]
  ELSE UpdatedBy(position, covariance, dz, HQ.H, KalmanGain(covariance, HQ.H, HQ.Ql))

\* Particle.update_landmark up to the two assignments: the landmark's new
\* position and covariance, or the exception raised.
UpdatedLandmark(pose, position, covariance, measurement, Qt, scanner_displacement) ==
  UpdatedOf(position, covariance,
            Residual(measurement, h(pose, position, scanner_displacement)),
            H_Ql(pose, position, covariance, Qt, scanner_displacement))

-----------------------------------------------------------------------------
(* The filter's constants (the main block's, on the model's grid) and the   *)
(* inputs the model draws from.                                             *)

RobotWidth == 1

ScannerDisplacement == 1

\* control_motion_factor and control_turn_factor, in hundredths.
ControlMotionFactor == 15

ControlTurnFactor == 20

MinimumCorrespondenceLikelihood == 4

\* start_state: every initial particle has this pose.
StartState == << 0, 0, 0 >>

\* The measurement noise a filter is constructed with: the two standard
\* deviations, positive or (a sensor taken as exact) zero.
MeasurementStddevs == { << 1, 1 >>, << 0, 0 >> }

\* Odometry: (left, right) wheel travel.
Controls == { << 1, 1 >>, << 0, 0 >> }

\* What random.gauss(mu, sigma) adds to mu: nothing when sigma = 0.
GaussNoise(sigma) == IF sigma = 0 THEN { 0 } ELSE { 0, 1 }

\* A cylinder: <<(range, bearing), (x, y) in the scanner's frame>>.  The first
\* is a cylinder at the scanner itself: the main block's scan processing drops
\* it (minimum_valid_distance), correct takes it as it takes any other.
Observations ==
  { << << 0, 0 >>, << 0, 0 >> >>,
    << << 1, 0 >>, << 1, 0 >> >>,
    << << 2, 1 >>, << 0, 2 >> >> }

RECURSIVE SeqsUpTo(_, _)
SeqsUpTo(S, n) ==
  IF n = 0 THEN { << >> }
  ELSE LET shorter == SeqsUpTo(S, n - 1)
       IN  shorter \cup { Append(q, x) : q \in shorter, x \in S }

\* The points random.uniform(0, hi) is drawn from in a run of the filter: the
\* two ends of the interval and its middle.
UniformDraws(hi) == { 0, hi \div 2, hi }

-----------------------------------------------------------------------------
(* The Particle methods, on the heap: po maps a reference to a Particle     *)
(* object [pose, lp, lc], where lp and lc are the references of its         *)
(* landmark_positions and landmark_covariances lists, and ls maps a list's  *)
(* reference to its elements.                                               *)

number_of_landmarks(ls, p) == Len(ls[p.lp])

\* The landmark storage of a Particle: its two lists.
ViewOf(ls, p) == << ls[p.lp], ls[p.lc] >>

RECURSIVE compute_correspondence_likelihoods(_, _, _, _, _, _, _)

\* Lines 126-129 for the likelihood wl of landmark Len(likelihoods) + 1.
LikelihoodsNext(ls, p, measurement, n, Qt, disp, likelihoods, wl) ==
  IF wl.exc # "none"
  THEN [exc |-> wl.exc]
  ELSE compute_correspondence_likelihoods(ls, p, measurement, n, Qt, disp,
                                          Append(likelihoods, wl.w))

\* Particle.compute_correspondence_likelihoods: indices 0 .. n-1 of the
\* program; an index past the list's end raises.
compute_correspondence_likelihoods(ls, p, measurement, n, Qt, disp, likelihoods) ==
  IF Len(likelihoods) >= n
  THEN [exc |-> "none", likelihoods |-> likelihoods]
  ELSE IF Len(likelihoods) + 1 > Len(ls[p.lp])
  THEN [exc |-> "IndexError"]
  ELSE LikelihoodsNext(ls, p, measurement, n, Qt, disp, likelihoods,
                       wl_likelihood_of_correspondence(
                         measurement, p.pose, ls[p.lp][Len(likelihoods) + 1],
                         ls[p.lc][Len(likelihoods) + 1], Qt, disp))

\* Python's max of a non-empty list: the first element, replaced by each
\* later one that compares greater.
RECURSIVE MaxFrom(_, _, _)
MaxFrom(q, index, m) ==
  IF index > Len(q) THEN m
  ELSE MaxFrom(q, index + 1, IF Gt(q[index], m) THEN q[index] ELSE m)

MaxOf(q) == MaxFrom(q, 2, q[1])

\* Lines 202-207: (max, argmax) by a strict comparison, from w = 0 and
\* max_index = 0 (element 1 here).
RECURSIVE ArgMaxLoop(_, _, _, _)
ArgMaxLoop(likelihoods, index, w, max_index) ==
  IF index > Len(likelihoods)
  THEN [w |-> w, max_index |-> max_index]
  ELSE IF Gt(likelihoods[index], w)
       THEN ArgMaxLoop(likelihoods, index + 1, likelihoods[index], index)
       ELSE ArgMaxLoop(likelihoods, index + 1, w, max_index)

\* Lines 155-156: the two appends, unless line 149 or 150 raised.
AppendLandmark(ls, p, nl) ==
  IF nl.exc # "none"
  THEN [exc |-> nl.exc, lists |-> ls]
  ELSE [exc |-> "none",
        lists |-> [[ls EXCEPT ![p.lp] = Append(@, nl.position)]
                     EXCEPT ![p.lc] = Append(@, nl.covariance)]]

\* Particle.initialize_new_landmark.
initialize_new_landmark(ls, p, measurement_in_scanner_system, Qt, disp) ==
  AppendLandmark(ls, p, NewLandmark(p.pose, measurement_in_scanner_system, Qt, disp))

\* Lines 170-174: the two item assignments, unless line 165 or 168 raised.
StoreLandmark(ls, p, landmark_number, ul) ==
  IF ul.exc # "none"
  THEN [exc |-> ul.exc, lists |-> ls]
  ELSE [exc |-> "none",
        lists |-> [[ls EXCEPT ![p.lp][landmark_number] = ul.position]
                     EXCEPT ![p.lc][landmark_number] = ul.covariance]]

\* Particle.update_landmark.
update_landmark(ls, p, landmark_number, measurement, Qt, disp) ==
  StoreLandmark(ls, p, landmark_number,
                UpdatedLandmark(p.pose, ls[p.lp][landmark_number],
                                ls[p.lc][landmark_number], measurement, Qt, disp))

\* What a call of update_particle did: the lists after it, the value it
\* returned (ret) or the exception it raised, the likelihoods it computed and
\* the landmark it updated (0: none).
Outcome(r, ret, likelihoods, updated) ==
  [exc |-> r.exc, lists |-> r.lists, ret |-> ret,
   likelihoods |-> likelihoods, updated |-> updated]

\* Lines 210-211 for the (w, max_index) of lines 202-207.
UpdateBest(ls, p, measurement, Qt, disp, likelihoods, am) ==
  Outcome(update_landmark(ls, p, am.max_index, measurement, Qt, disp),
          am.w, likelihoods, am.max_index)

\* Lines 194-211 for the likelihoods of line 189.
Associate(ls, p, measurement, measurement_in_scanner_system, minimum_correspondence_likelihood, Qt, disp, likelihoods) ==
  IF likelihoods = << >> \/ Lt(MaxOf(likelihoods), minimum_correspondence_likelihood)
  THEN Outcome(initialize_new_landmark(ls, p, measurement_in_scanner_system, Qt, disp),
               minimum_correspondence_likelihood, likelihoods, 0)
  ELSE UpdateBest(ls, p, measurement, Qt, disp, likelihoods,
                  ArgMaxLoop(likelihoods, 1, 0, 1))

\* Lines 194-211, unless line 189 raised.
AssociateOf(ls, p, measurement, measurement_in_scanner_system, minimum_correspondence_likelihood, Qt, disp, c) ==
  IF c.exc # "none"
  THEN [exc |-> c.exc, lists |-> ls, ret |-> 0, likelihoods |-> << >>, updated |-> 0]
  ELSE Associate(ls, p, measurement, measurement_in_scanner_system,
                 minimum_correspondence_likelihood, Qt, disp, c.likelihoods)

\* update_particle with the landmarks counted anew at every observation.
update_particle_recount(ls, p, measurement, measurement_in_scanner_system, n, minimum_correspondence_likelihood, Qt, disp) ==
  AssociateOf(ls, p, measurement, measurement_in_scanner_system,
              minimum_correspondence_likelihood, Qt, disp,
              compute_correspondence_likelihoods(ls, p, measurement,
                                                 number_of_landmarks(ls, p),
                                                 Qt, disp, << >>))

\* Particle.update_particle.
update_particle(ls, p, measurement, measurement_in_scanner_system, n, minimum_correspondence_likelihood, Qt, disp) ==
  AssociateOf(ls, p, measurement, measurement_in_scanner_system,
              minimum_correspondence_likelihood, Qt, disp,
              compute_correspondence_likelihoods(ls, p, measurement, n, Qt, disp, << >>))

-----------------------------------------------------------------------------
(* FastSLAM.update_and_compute_weights.                                     *)

\* The record of one call of update_particle: the particle's two lists before
\* and after it, the likelihoods it computed, what it returned.
Entry(ls, p, u) ==
  [exc |-> u.exc,
   pre |-> << ls[p.lp], ls[p.lc] >>,
   post |-> << u.lists[p.lp], u.lists[p.lc] >>,
   likelihoods |-> u.likelihoods,
   updated |-> u.updated,
   ret |-> u.ret]

RECURSIVE ObservationLoop(_, _, _, _, _, _, _, _)

\* Line 258 for the outcome u of update_particle on observation k:
\* weight *= u.ret, unless it raised.
ObservationNext(ls, p, n, Qt, cyl, k, weight, entries, u) ==
  IF u.exc # "none"
  THEN [exc |-> u.exc, lists |-> u.lists, weight |-> weight,
        entries |-> Append(entries, Entry(ls, p, u))]
  ELSE ObservationLoop(u.lists, p, n, Qt, cyl, k + 1, weight * u.ret,
                       Append(entries, Entry(ls, p, u)))

\* The inner loop (lines 257-262) for one particle, from observation k on.
\* Line 262 passes the main block's scanner_displacement.
ObservationLoop(ls, p, n, Qt, cyl, k, weight, entries) ==
  IF k > Len(cyl)
  THEN [exc |-> "none", lists |-> ls, weight |-> weight, entries |-> entries]
  ELSE ObservationNext(ls, p, n, Qt, cyl, k, weight, entries,
                       update_particle(ls, p, cyl[k][1], cyl[k][2], n,
                                       MinimumCorrespondenceLikelihood, Qt,
                                       ScannerDisplacement))

\* What lines 253-265 did for one particle.
Weighed(n, r) ==
  [exc |-> r.exc, lists |-> r.lists, weight |-> r.weight,
   record |-> [captured |-> n, entries |-> r.entries]]

\* Lines 254-262 for the landmark count n that line 253 read.
WeightFrom(ls, p, Qt, cyl, n) ==
  Weighed(n, ObservationLoop(ls, p, n, Qt, cyl, 1, 1, << >>))

\* Lines 253-262 for one particle: the landmark count is read once, the
\* weight starts at 1.0.
ParticleWeight(ls, p, Qt, cyl) == WeightFrom(ls, p, Qt, cyl, number_of_landmarks(ls, p))

RECURSIVE update_and_compute_weights(_, _, _, _, _, _, _, _)

\* Line 265 for what the inner loop did for slot i, unless it raised.
WeightsNext(ps, po, Qt, cyl, i, ws, records, r) ==
  IF r.exc # "none"
  THEN [exc |-> r.exc, lists |-> r.lists, weights |-> ws,
        records |-> Append(records, r.record)]
  ELSE update_and_compute_weights(ps, po, r.lists, Qt, cyl, i + 1,
                                  Append(ws, r.weight), Append(records, r.record))

\* The outer loop (line 251), from slot i on; an exception ends it.
update_and_compute_weights(ps, po, ls, Qt, cyl, i, ws, records) ==
  IF i > Len(ps)
  THEN [exc |-> "none", lists |-> ls, weights |-> ws, records |-> records]
  ELSE WeightsNext(ps, po, Qt, cyl, i, ws, records,
                   ParticleWeight(ls, po[ps[i]], Qt, cyl))

-----------------------------------------------------------------------------
(* FastSLAM.predict.                                                        *)

\* sqrt((control_motion_factor * side)**2 + (control_turn_factor * (left - right))**2),
\* in hundredths (lines 235-238).
SideStd(side, difference) ==
  ISqrt((ControlMotionFactor * side) * (ControlMotionFactor * side)
        + (ControlTurnFactor * difference) * (ControlTurnFactor * difference))

\* The pairs (l, r) the two random.gauss calls of one iteration can return.
NoisyControls(control) ==
  { << control[1] + a, control[2] + b >> :
      a \in GaussNoise(SideStd(control[1], control[1] - control[2])),
      b \in GaussNoise(SideStd(control[2], control[1] - control[2])) }

\* The loop of predict (lines 240-243): Particle.move on every slot in turn.
RECURSIVE MoveAll(_, _, _, _)
MoveAll(ps, po, i, draws) ==
  IF i > Len(ps) THEN po
  ELSE MoveAll(ps, [po EXCEPT ![ps[i]].pose = g(@, draws[i], RobotWidth)], i + 1, draws)

-----------------------------------------------------------------------------
(* FastSLAM.resample.                                                       *)

\* A loop condition that lets twice the weight pass.
RsExceedsTwice(ws, index, offset) == offset > 2 * ws[index + 1]

\* The loop condition of line 278 (index is 0-based, as in the program).
RsExceeds(ws, index, offset) == offset > ws[index + 1]

\* The index after line 280.
RsNextIndex(ws, index) == (index + 1) % Len(ws)

\* Lines 278-280: the while loop, run to its end.
RECURSIVE RsAdvance(_, _, _)
RsAdvance(ws, index, offset) ==
  IF RsExceeds(ws, index, offset)
  THEN RsAdvance(ws, RsNextIndex(ws, index), offset - ws[index + 1])
  ELSE [index |-> index, offset |-> offset]

RECURSIVE RsSelect(_, _, _, _, _)

\* Line 281 for the index the while loop of iteration i stopped at.
RsSelected(ws, n, steps, out, a) ==
  RsSelect(ws, n, steps, Append(out, a.index), a)

\* Lines 276-281 from iteration Len(out) + 1 on: the indices copied, in order.
RsSelect(ws, n, steps, out, at) ==
  IF Len(out) >= n THEN out
  ELSE RsSelected(ws, n, steps, out,
                  RsAdvance(ws, at.index, at.offset + steps[Len(out) + 1]))

\* A for loop that ends one iteration early.
ResampleShort(ws, n, start, steps) ==
  RsSelect(ws, n - 1, steps, << >>, [index |-> start, offset |-> 0])

\* The indices resample copies for a start index and the uniform draws.
ResampleIndices(ws, n, start, steps) ==
  RsSelect(ws, n, steps, << >>, [index |-> start, offset |-> 0])

MaxId(f) == IF DOMAIN f = {} THEN 0 ELSE CHOOSE m \in DOMAIN f : \A k \in DOMAIN f : k <= m

\* An aliasing copy: the new slot refers to the old Particle object.
AliasParticle(po, ls, ref) == [po |-> po, ls |-> ls, ref |-> ref]

\* copy.deepcopy of a Particle: a new object with lists of its own.  The
\* elements are arrays no method writes into, so they are values here.
DeepCopyParticle(po, ls, ref) ==
  [po |-> po @@ ((MaxId(po) + 1) :>
                   [pose |-> po[ref].pose, lp |-> MaxId(ls) + 1, lc |-> MaxId(ls) + 2]),
   ls |-> ls @@ ((MaxId(ls) + 1) :> ls[po[ref].lp]) @@ ((MaxId(ls) + 2) :> ls[po[ref].lc]),
   ref |-> MaxId(po) + 1]

RECURSIVE CopyAll(_, _, _, _, _)

\* Line 281: the copy c is appended.
CopyNext(ps, indices, new_particles, c) ==
  CopyAll(ps, c.po, c.ls, indices, Append(new_particles, c.ref))

\* new_particles.append(copy.deepcopy(self.particles[index])) for each index.
CopyAll(ps, po, ls, indices, new_particles) ==
  IF Len(new_particles) >= Len(indices)
  THEN [po |-> po, ls |-> ls, particles |-> new_particles]
  ELSE CopyNext(ps, indices, new_particles,
                DeepCopyParticle(po, ls, ps[indices[Len(new_particles) + 1] + 1]))

\* The first slot of ps that holds the reference.
SlotOf(ps, ref) == CHOOSE i \in 1..Len(ps) : ps[i] = ref /\ \A j \in 1..(i - 1) : ps[j] # ref

\* The places that hold the reference L of a list: 2 i - 1 for the
\* landmark_positions of slot i, 2 i for its landmark_covariances.
Places(ps, po, L) ==
  { 2 * i - 1 : i \in { j \in 1..Len(ps) : po[ps[j]].lp = L } }
  \cup { 2 * i : i \in { j \in 1..Len(ps) : po[ps[j]].lc = L } }

NameOf(ps, po, L) == CHOOSE k \in Places(ps, po, L) : \A m \in Places(ps, po, L) : k <= m

Live(ps, po) == { po[ps[i]].lp : i \in 1..Len(ps) } \cup { po[ps[i]].lc : i \in 1..Len(ps) }

\* The heap once the objects nothing refers to are gone, every reference
\* renamed after the first place that holds it.
Collect(ps, po, ls) ==
  [particles |-> [i \in 1..Len(ps) |-> SlotOf(ps, ps[i])],
   po |-> [k \in { SlotOf(ps, ps[i]) : i \in 1..Len(ps) } |->
             [pose |-> po[ps[k]].pose,
              lp |-> NameOf(ps, po, po[ps[k]].lp),
              lc |-> NameOf(ps, po, po[ps[k]].lc)]],
   ls |-> [k \in { NameOf(ps, po, L) : L \in Live(ps, po) } |->
             ls[CHOOSE L \in Live(ps, po) : NameOf(ps, po, L) = k]]]

-----------------------------------------------------------------------------
(* The filter: construction, predict, correct.                              *)

RsIdle == [pc |-> "idle"]

GIdle == [pc |-> "idle"]

\* Before the filter is constructed.
NoFilter ==
  /\ pc = "new"
  /\ particles = << >>
  /\ pobj = << >>
  /\ lists = << >>
  /\ qt = << 0, 0 >>
  /\ weights = << >>
  /\ cylinders = << >>
  /\ log = << >>
  /\ src = << >>
  /\ exc = "none"
  /\ n0 = 0
  /\ calls = 0

Init ==
  /\ NoFilter
  /\ rs = RsIdle
  /\ gq = GIdle

\* The main block's initial_particles (lines 316-318), each a Particle of its
\* own with two empty lists, and FastSLAM.__init__, which stores what it is
\* given.
Construct(n, stddev) ==
  /\ pc = "new"
  /\ particles' = [i \in 1..n |-> i]
  /\ pobj' = [i \in 1..n |-> [pose |-> StartState, lp |-> 2 * i - 1, lc |-> 2 * i]]
  /\ lists' = [k \in 1..(2 * n) |-> << >>]
  /\ qt' = << stddev[1] * stddev[1], stddev[2] * stddev[2] >>
  /\ n0' = n
  /\ pc' = "idle"
  /\ UNCHANGED << weights, cylinders, log, src, exc, calls, rs, gq >>

\* FastSLAM.predict.
Predict(control, draws) ==
  /\ pc = "idle"
  /\ calls < MaxCalls
  /\ pobj' = MoveAll(particles, pobj, 1, draws)
  /\ calls' = calls + 1
  /\ UNCHANGED << pc, particles, lists, qt, weights, cylinders, log, src, exc, n0, rs, gq >>

\* Line 287 for what update_and_compute_weights did.  An exception leaves the
\* lists as they were when it was raised and ends the run: nothing in the
\* program catches it.
Weighted(r) ==
  /\ lists' = r.lists
  /\ log' = r.records
  /\ IF r.exc = "none"
     THEN pc' = "weighted" /\ weights' = r.weights /\ exc' = exc
     ELSE pc' = "raised" /\ weights' = weights /\ exc' = r.exc

\* FastSLAM.correct, first statement (line 287): update_and_compute_weights.
UpdateWeights(cyl) ==
  /\ pc = "idle"
  /\ calls < MaxCalls
  /\ Weighted(update_and_compute_weights(particles, pobj, lists, QtMatrix(qt), cyl,
                                         1, << >>, << >>))
  /\ cylinders' = cyl
  /\ calls' = calls + 1
  /\ UNCHANGED << particles, pobj, qt, src, n0, rs, gq >>

\* Line 290: self.particles becomes the list resample returned; the objects
\* of the old list are garbage.
Installed(indices, heap) ==
  /\ particles' = heap.particles
  /\ pobj' = heap.po
  /\ lists' = heap.ls
  /\ src' = indices
  /\ pc' = "idle"
  /\ weights' = << >>
  /\ cylinders' = << >>
  /\ log' = << >>
  /\ exc' = exc

Copied(indices, c) == Installed(indices, Collect(c.particles, c.po, c.ls))

\* Lines 276-282 and 290 for the indices the wheel selects.
Resampled(indices) == Copied(indices, CopyAll(particles, pobj, lists, indices, << >>))

\* FastSLAM.correct, second statement (line 290): self.particles becomes what
\* resample returns.  max of an empty list raises (line 273).
Resample ==
  /\ pc = "weighted"
  /\ IF weights = << >>
     THEN /\ pc' = "raised"
          /\ exc' = "ValueError"
          /\ UNCHANGED << particles, pobj, lists, weights, cylinders, log, src >>
     ELSE \E start \in 0..(Len(particles) - 1) :
          \E steps \in [1..Len(particles) -> UniformDraws(2 * MaxOf(weights))] :
            Resampled(ResampleIndices(weights, Len(particles), start, steps))
  /\ UNCHANGED << qt, n0, calls, rs, gq >>

Next ==
  \/ \E n \in 0..MaxParticles : \E stddev \in MeasurementStddevs : Construct(n, stddev)
  \/ \E control \in Controls :
       \E draws \in [1..Len(particles) -> NoisyControls(control)] : Predict(control, draws)
  \/ \E cyl \in SeqsUpTo(Observations, MaxCylinders) : UpdateWeights(cyl)
  \/ Resample

Spec == Init /\ [][Next]_vars

-----------------------------------------------------------------------------
(* Particle.g and Particle.move on their own: a Particle at any pose, moved *)
(* by any control.                                                          *)

\* The poses a Particle is constructed with.  Particle.__init__ stores the
\* pose it is given, so the heading is any number of quarter turns.
GPoses ==
  { << x, y, theta >> : x \in (-MaxCoord)..MaxCoord, y \in (-MaxCoord)..MaxCoord,
                        theta \in (-MaxTurn)..MaxTurn }

\* (left, right, w): the width divides the difference of the wheels, so that
\* alpha = (r - l) / w is a whole number of quarter turns.
GControls ==
  { c \in ((-MaxWheel)..MaxWheel) \X ((-MaxWheel)..MaxWheel) \X {1, 2} :
      (c[2] - c[1]) % c[3] = 0 }

InitG ==
  /\ NoFilter
  /\ rs = RsIdle
  /\ gq \in { [pc |-> "posed", pose |-> p, from |-> p, arc |-> FALSE, moves |-> 0] :
                p \in GPoses }

\* Particle.move: self.pose = self.g(self.pose, (left, right), w).
Move(left, right, w) ==
  /\ gq.pc \in { "posed", "moved" }
  /\ gq.moves < MaxMoves
  /\ gq' = [pc |-> "moved",
            pose |-> g(gq.pose, << left, right >>, w),
            from |-> gq.pose,
            arc |-> (right # left),
            moves |-> gq.moves + 1]
  /\ UNCHANGED << mainVars, rs >>

NextG == \E c \in GControls : Move(c[1], c[2], c[3])

SpecG == InitG /\ [][NextG]_vars

-----------------------------------------------------------------------------
(* FastSLAM.resample on its own, statement by statement: any weights, any   *)
(* start index, any uniform draws.                                          *)

\* The weight vectors: 1 .. MaxParticles weights, each positive.
WeightVectors == UNION { [1..n -> 1..MaxWeight] : n \in 1..MaxParticles }

InitResample ==
  /\ NoFilter
  /\ gq = GIdle
  /\ rs \in { [pc |-> "start", weights |-> ws, max_weight |-> 0, index |-> 0,
               offset |-> 0, i |-> 0, new_particles |-> << >>, at |-> << >>] :
                ws \in WeightVectors }

\* Lines 272-275: max_weight, the random start index, offset = 0.0.
RsStart(start) ==
  /\ rs.pc = "start"
  /\ rs' = [rs EXCEPT !.pc = "for", !.max_weight = MaxOf(rs.weights), !.index = start]
  /\ UNCHANGED << mainVars, gq >>

\* Lines 276-277: the next iteration of the for loop adds the draw u.
RsDraw(u) ==
  /\ rs.pc = "for"
  /\ rs.i < Len(rs.weights)
  /\ rs' = [rs EXCEPT !.pc = "while", !.offset = @ + u]
  /\ UNCHANGED << mainVars, gq >>

\* Lines 278-280: one iteration of the while loop.
RsSkip ==
  /\ rs.pc = "while"
  /\ RsExceeds(rs.weights, rs.index, rs.offset)
  /\ rs' = [rs EXCEPT !.offset = @ - rs.weights[rs.index + 1],
                      !.index = RsNextIndex(rs.weights, rs.index)]
  /\ UNCHANGED << mainVars, gq >>

\* Line 281: the while loop has ended; the particle at index is copied.  at
\* keeps the offset each copy was made at.
RsCopy ==
  /\ rs.pc = "while"
  /\ ~RsExceeds(rs.weights, rs.index, rs.offset)
  /\ rs' = [rs EXCEPT !.pc = "for", !.i = @ + 1,
                      !.new_particles = Append(@, rs.index),
                      !.at = Append(@, rs.offset)]
  /\ UNCHANGED << mainVars, gq >>

\* Line 282: return new_particles.
RsReturn ==
  /\ rs.pc = "for"
  /\ rs.i >= Len(rs.weights)
  /\ rs' = [rs EXCEPT !.pc = "done"]
  /\ UNCHANGED << mainVars, gq >>

NextResample ==
  \/ \E start \in 0..(Len(rs.weights) - 1) : RsStart(start)
  \/ \E u \in 0..(2 * rs.max_weight) : RsDraw(u)
  \/ RsSkip
  \/ RsCopy
  \/ RsReturn

\* The interpreter runs a started call on: every statement that can be
\* executed is executed.
SpecResample == InitResample /\ [][NextResample]_vars /\ WF_vars(NextResample)

-----------------------------------------------------------------------------
(* The properties.                                                          *)

\* C1: a filter constructed with N >= 1 particles holds exactly N particles
\* after any sequence of predict and correct calls: update_and_compute_weights
\* returns N weights and resample returns a list of N particles.
C1_ParticleCount ==
  (n0 >= 1 /\ pc # "new") =>
    /\ Len(particles) = n0
    /\ pc = "weighted" => Len(weights) = n0
    /\ src # << >> => Len(src) = n0

\* Two slots of a resampled set of N = 2 or more were copied from one index.
C1_Witness ==
  /\ pc = "idle"
  /\ n0 >= 2
  /\ Len(particles) = n0
  /\ \E i, j \in 1..Len(src) : i < j /\ src[i] = src[j]

\* C2: after resample no two slots share landmark storage: in a later
\* correction the landmark lists of every slot end as the slot's own
\* observations alone make them, whatever was appended to or updated in the
\* other slots, also the ones copied from the same index.
C2_Independent ==
  [][(pc = "idle" /\ pc' = "weighted" /\ src # << >>) =>
       \A j \in 1..Len(particles) :
         ViewOf(lists', pobj'[particles'[j]])
           = ViewOf(ParticleWeight(lists, pobj[particles[j]], QtMatrix(qt), cylinders').lists,
                    pobj[particles[j]])]_vars

\* Two slots copied from one index, whose landmarks a later correction has
\* made different.
C2_Witness ==
  /\ pc = "weighted"
  /\ \E i, j \in 1..Len(particles) :
       /\ i < j
       /\ Len(src) = Len(particles)
       /\ src[i] = src[j]
       /\ log[i].entries # << >>
       /\ ViewOf(lists, pobj[particles[i]]) # ViewOf(lists, pobj[particles[j]])

\* C3: in one call of update_and_compute_weights the landmark count of a
\* particle is read once, before its first observation, and every observation
\* of the call is compared against exactly that many landmarks, also after the
\* call has created one; the count read is the number of landmarks the
\* particle holds when the call starts, the ones earlier calls created included.
C3_CapturedOnce ==
  [][(pc = "idle" /\ pc' \in { "weighted", "raised" }) =>
       \A i \in 1..Len(log') :
         /\ log'[i].captured = Len(lists[pobj[particles[i]].lp])
         /\ \A k \in 1..Len(log'[i].entries) :
              log'[i].entries[k].exc = "none" =>
                Len(log'[i].entries[k].likelihoods) = log'[i].captured]_vars

\* A call that started with a landmark of an earlier call, created another on
\* its first observation, and compared its second observation against the
\* earlier one only.
C3_Witness ==
  /\ pc = "weighted"
  /\ \E i \in 1..Len(log) :
       /\ log[i].captured >= 1
       /\ Len(log[i].entries) >= 2
       /\ log[i].entries[1].updated = 0
       /\ Len(log[i].entries[2].pre[1]) = log[i].captured + 1
       /\ Len(log[i].entries[2].likelihoods) = log[i].captured

\* C4: when update_particle has no candidate, or every candidate's likelihood
\* is below minimum_correspondence_likelihood, it appends exactly one position
\* and one covariance, leaves the landmarks it had as they were, and returns
\* the threshold; when the largest likelihood equals the threshold it creates
\* no landmark.
C4_NewLandmark ==
  \A i \in 1..Len(log) : \A k \in 1..Len(log[i].entries) :
    LET e == log[i].entries[k]
        candidates == 1..Len(e.likelihoods)
        threshold == MinimumCorrespondenceLikelihood
    IN  /\ ( \/ log[i].captured = 0
             \/ /\ Len(e.likelihoods) = log[i].captured
                /\ \A j \in candidates :
                     e.likelihoods[j] # NaN /\ e.likelihoods[j] < threshold )
           => /\ e.exc = "none"
              /\ Len(e.post[1]) = Len(e.pre[1]) + 1
              /\ Len(e.post[2]) = Len(e.pre[2]) + 1
              /\ SubSeq(e.post[1], 1, Len(e.pre[1])) = e.pre[1]
              /\ SubSeq(e.post[2], 1, Len(e.pre[2])) = e.pre[2]
              /\ e.ret = threshold
        /\ ( /\ \A j \in candidates :
                  e.likelihoods[j] # NaN /\ e.likelihoods[j] <= threshold
             /\ \E j \in candidates : e.likelihoods[j] = threshold )
           => /\ Len(e.post[1]) = Len(e.pre[1])
              /\ Len(e.post[2]) = Len(e.pre[2])

\* One call in which an observation with all its candidates below the
\* threshold created a landmark and an observation whose largest likelihood is
\* the threshold created none.
C4_Witness ==
  /\ pc = "weighted"
  /\ \E i \in 1..Len(log) : \E k \in 1..Len(log[i].entries) :
       /\ log[i].entries[k].likelihoods # << >>
       /\ \A j \in 1..Len(log[i].entries[k].likelihoods) :
            /\ log[i].entries[k].likelihoods[j] # NaN
            /\ log[i].entries[k].likelihoods[j] < MinimumCorrespondenceLikelihood
       /\ Len(log[i].entries[k].post[1]) = Len(log[i].entries[k].pre[1]) + 1
  /\ \E i \in 1..Len(log) : \E k \in 1..Len(log[i].entries) :
       /\ \E j \in 1..Len(log[i].entries[k].likelihoods) :
            log[i].entries[k].likelihoods[j] = MinimumCorrespondenceLikelihood
       /\ \A j \in 1..Len(log[i].entries[k].likelihoods) :
            /\ log[i].entries[k].likelihoods[j] # NaN
            /\ log[i].entries[k].likelihoods[j] <= MinimumCorrespondenceLikelihood
       /\ log[i].entries[k].updated >= 1

\* C5: when update_particle has a candidate and the largest likelihood is not
\* below the threshold, it updates the first landmark that has the largest
\* likelihood, returns that likelihood, and leaves the number of landmarks
\* and the position and covariance of every other landmark as they were.
C5_UpdateBest ==
  \A i \in 1..Len(log) : \A k \in 1..Len(log[i].entries) :
    LET e == log[i].entries[k]
        candidates == 1..Len(e.likelihoods)
        best == CHOOSE j \in candidates :
                  /\ \A l \in candidates : e.likelihoods[l] <= e.likelihoods[j]
                  /\ \A l \in 1..(j - 1) : e.likelihoods[l] < e.likelihoods[j]
    IN  ( /\ e.likelihoods # << >>
          /\ \A j \in candidates : e.likelihoods[j] # NaN
          /\ \E j \in candidates : e.likelihoods[j] >= MinimumCorrespondenceLikelihood )
        => /\ e.exc = "none"
           /\ e.updated = best
           /\ e.ret = e.likelihoods[best]
           /\ Len(e.post[1]) = Len(e.pre[1])
           /\ Len(e.post[2]) = Len(e.pre[2])
           /\ \A l \in 1..Len(e.pre[1]) :
                l # best => e.post[1][l] = e.pre[1][l] /\ e.post[2][l] = e.pre[2][l]

\* Two candidates tie at a likelihood above the threshold; the first is
\* updated, and the update changed it.
C5_Witness ==
  /\ pc = "weighted"
  /\ \E i \in 1..Len(log) : \E k \in 1..Len(log[i].entries) :
       /\ Len(log[i].entries[k].likelihoods) >= 2
       /\ log[i].entries[k].likelihoods[1] = log[i].entries[k].likelihoods[2]
       /\ log[i].entries[k].likelihoods[1] > MinimumCorrespondenceLikelihood
       /\ log[i].entries[k].updated = 1
       /\ log[i].entries[k].post # log[i].entries[k].pre

\* C6: for a threshold > 0 (and positive measurement standard deviations)
\* every contribution update_particle returns is at least the threshold, so
\* every weight update_and_compute_weights returns is positive; with no
\* observation every weight is exactly 1.
C6_WeightFloor ==
  (pc = "weighted" /\ qt[1] > 0 /\ qt[2] > 0) =>
    \A i \in 1..Len(weights) :
      /\ weights[i] > 0
      /\ cylinders = << >> => weights[i] = 1
      /\ \A k \in 1..Len(log[i].entries) :
           log[i].entries[k].ret >= MinimumCorrespondenceLikelihood

\* C7: a numerical failure on one observation of one particle does not end
\* the correction: a call of update_and_compute_weights that has started on
\* the particles returns a weight for every one of them.
C7_EveryParticleWeighed ==
  (n0 >= 1 /\ log # << >>) => (pc = "weighted" /\ Len(weights) = Len(particles))

\* C8: the constructor rejects an empty particle list: no filter that predict
\* or correct can be called on has no particles.
C8_EmptyRejected ==
  pc \in { "idle", "weighted" } => particles # << >>

\* C9: after Particle.g on the arc branch (left # right) the heading lies in
\* [-pi, pi): -pi is included and pi is excluded; on the straight branch
\* (left = right) the heading is the one the pose had, in the interval or not.
C9_HeadingRange ==
  gq.pc = "moved" =>
    IF gq.arc
    THEN -Pi <= gq.pose[3] /\ gq.pose[3] < Pi
    ELSE gq.pose[3] = gq.from[3]

\* An arc from a heading inside the interval that ends at exactly -pi.
C9_Witness ==
  /\ gq.pc = "moved"
  /\ gq.arc
  /\ -Pi < gq.from[3]
  /\ gq.from[3] <= Pi
  /\ gq.pose[3] = -Pi

\* C9 as stated: after every motion propagation the heading lies in (-pi, pi].
C9_HalfOpenBelow ==
  gq.pc = "moved" => (-Pi < gq.pose[3] /\ gq.pose[3] <= Pi)

\* C10: for positive weights, any start index and any draws in
\* [0, 2 max(weights)], resample ends with N particles; all the way the index
\* is in 0 .. N-1 and the offset is not negative, and each particle is copied
\* at an offset that does not exceed the weight at its index.
C10_Wheel ==
  /\ [](rs.pc # "start" =>
          /\ rs.index \in 0..(Len(rs.weights) - 1)
          /\ rs.offset >= 0
          /\ Len(rs.at) = Len(rs.new_particles)
          /\ \A k \in 1..Len(rs.at) : rs.at[k] <= rs.weights[rs.new_particles[k] + 1]
          /\ rs.pc = "done" => Len(rs.new_particles) = Len(rs.weights))
  /\ <>(rs.pc = "done")

\* A finished run in which the index wrapped around and a particle was copied
\* with the offset at exactly its weight.
C10_Witness ==
  /\ rs.pc = "done"
  /\ \E k \in 1..Len(rs.at) : rs.at[k] = rs.weights[rs.new_particles[k] + 1]
  /\ \E k \in 1..(Len(rs.new_particles) - 1) :
       rs.new_particles[k + 1] < rs.new_particles[k]

====
